---- MODULE Spec2Model ----
(***************************************************************************)
(* A model of the RAG pipeline of main.py and app/: the upload handler     *)
(* (upload_document with process_document_and_embed), the query handler    *)
(* (query_system), and the three stores they share: the upload directory,  *)
(* the MongoDB metadata collection and the Chroma vector index.            *)
(*                                                                         *)
(* Text is a sequence of one-character strings.  A handler is cut into     *)
(* steps at its calls to the stores, so that handlers of concurrent        *)
(* requests interleave where the code performs I/O.                        *)
(***************************************************************************)
EXTENDS Integers, Sequences, FiniteSets, TLC

\* ------------------------------------------------------------------ bounds

\* Upload requests accepted by the model in one behaviour.
MaxUploads == 2

\* Query requests accepted by the model in one behaviour.
MaxQueries == 1

\* ------------------------------------------------------- program constants

MAX_DOCUMENTS_LIMIT == 20

MAX_PAGES_PER_DOCUMENT == 1000

chunk_size == 1000

chunk_overlap == 200

\* k of similarity_search_with_score
SEARCH_K == 4

\* doc.page_content[:200]
PREVIEW_LEN == 200

\* os.path.getsize(...) / 1024
BYTES_PER_KB == 1024

\* ---------------------------------------------------------------- text

Rep(c, n) == [i \in 1..n |-> c]

Min(a, b) == IF a <= b THEN a ELSE b

\* s[:n] of Python (n >= 0)
Take(s, n) == SubSeq(s, 1, Min(n, Len(s)))

\* the characters str.strip() removes
Whitespace == {" ", "\n", "\t"}

RECURSIVE lstrip(_)
lstrip(s) == IF s # <<>> /\ Head(s) \in Whitespace THEN lstrip(Tail(s)) ELSE s

RECURSIVE rstrip(_)
rstrip(s) ==
    IF s # <<>> /\ s[Len(s)] \in Whitespace THEN rstrip(SubSeq(s, 1, Len(s) - 1)) ELSE s

strip(s) == rstrip(lstrip(s))

\* ------------------------------------------------------------- chunker
\* text_splitter = RecursiveCharacterTextSplitter(chunk_size=1000,
\* chunk_overlap=200, length_function=len, is_separator_regex=False), with the
\* class defaults separators = ["\n\n", "\n", " ", ""], keep_separator = True,
\* strip_whitespace = True.

Separators == << <<"\n", "\n">>, <<"\n">>, <<" ">>, <<>> >>

\* sep occurs in text at position i
OccursAt(text, sep, i) ==
    /\ i >= 1
    /\ i + Len(sep) - 1 <= Len(text)
    /\ SubSeq(text, i, i + Len(sep) - 1) = sep

\* the positions >= i at which sep occurs in text
Matches(text, sep, i) == {j \in i..Len(text) : OccursAt(text, sep, j)}

SetMin(S) == CHOOSE x \in S : \A y \in S : x <= y

NonEmpty(pieces) == SelectSeq(pieces, LAMBDA s : s # <<>>)

\* re.split on a non-empty literal separator, the separator kept at the start
\* of the piece that follows it; st is where the current piece starts, i where
\* the search for the next match starts.
RECURSIVE SplitKeep(_, _, _, _)
SplitKeep(text, sep, st, i) ==
    LET ms == Matches(text, sep, i) IN
    IF ms = {} THEN <<SubSeq(text, st, Len(text))>>
    ELSE LET j == SetMin(ms) IN
         <<SubSeq(text, st, j - 1)>> \o SplitKeep(text, sep, j, j + Len(sep))

\* split_text_with_regex as with keep_separator=False: the separators are
\* dropped from the pieces
split_text_with_regex_drop(text, sep) ==
    IF sep = <<>>
    THEN [i \in 1..Len(text) |-> <<text[i]>>]
    ELSE LET pieces == SplitKeep(text, sep, 1, 1) IN
         NonEmpty([i \in 1..Len(pieces) |->
                      IF i = 1 THEN pieces[1]
                      ELSE SubSeq(pieces[i], Len(sep) + 1, Len(pieces[i]))])

\* _split_text_with_regex(text, separator, keep_separator=True)
split_text_with_regex(text, sep) ==
    IF sep = <<>>
    THEN [i \in 1..Len(text) |-> <<text[i]>>]
    ELSE NonEmpty(SplitKeep(text, sep, 1, 1))

\* _join_docs: separator.join(docs).strip(), None (here <<>>) when empty
join_docs(docs, separator) ==
    LET \* separator.join(docs[lo..hi]), by halves
        RECURSIVE Join(_, _)
        Join(lo, hi) ==
            IF lo > hi THEN <<>>
            ELSE IF lo = hi THEN docs[lo]
            ELSE Join(lo, (lo + hi) \div 2) \o separator \o Join((lo + hi) \div 2 + 1, hi)
    IN strip(Join(1, Len(docs)))

\* the inner while loop of _merge_splits: drop leading pieces of current_doc
\* until the overlap fits and the next piece (of length nextlen) fits.  Pass is
\* one test of the loop condition with the body when it holds; the loop has
\* left after at most Len(cur) passes (an empty current_doc has total 0), and
\* Run(n, st) is st after n passes, taken by halves.
PopOverlap(cur, tot, nextlen, slen) ==
    LET Pass(st) ==
            IF \/ st.total > chunk_overlap
               \/ /\ st.total + nextlen
                       + (IF Len(st.current_doc) > 0 THEN slen ELSE 0) > chunk_size
                  /\ st.total > 0
            THEN [current_doc |-> Tail(st.current_doc),
                  total |-> st.total - (Len(st.current_doc[1])
                                         + (IF Len(st.current_doc) > 1 THEN slen ELSE 0))]
            ELSE st
        RECURSIVE Run(_, _)
        Run(n, st) ==
            IF n = 0 \/ st.total < 0 THEN st
            ELSE IF n = 1 THEN Pass(st)
            ELSE Run(n - n \div 2, Run(n \div 2, st))
    IN Run(Len(cur), [current_doc |-> cur, total |-> tot])

\* one iteration of the for loop of _merge_splits over the piece d; st holds
\* the loop's variables docs, current_doc and total
MergeStep(st, d, separator) ==
    LET over == st.total + Len(d)
                  + (IF Len(st.current_doc) > 0 THEN Len(separator) ELSE 0) > chunk_size
        flush == over /\ Len(st.current_doc) > 0
        joined == join_docs(st.current_doc, separator)
        docs1 == IF flush /\ joined # <<>> THEN Append(st.docs, joined) ELSE st.docs
        popped == IF flush
                  THEN PopOverlap(st.current_doc, st.total, Len(d), Len(separator))
                  ELSE [current_doc |-> st.current_doc, total |-> st.total]
        cur1 == Append(popped.current_doc, d)
    IN [docs |-> docs1,
        current_doc |-> cur1,
        total |-> popped.total + Len(d) + (IF Len(cur1) > 1 THEN Len(separator) ELSE 0)]

\* the for loop of _merge_splits from the variables st: Run(lo, hi, st) is st
\* after the iterations over splits[lo..hi], taken by halves.  (st.total < 0
\* here and Len(st.good_splits) < 0 below are never true: they make TLC
\* evaluate the loop variables at every iteration.)
MergeLoop(splits, separator, st0) ==
    LET RECURSIVE Run(_, _, _)
        Run(lo, hi, st) ==
            IF lo > hi \/ st.total < 0 THEN st
            ELSE IF lo = hi THEN MergeStep(st, splits[lo], separator)
            ELSE Run((lo + hi) \div 2 + 1, hi, Run(lo, (lo + hi) \div 2, st))
    IN Run(1, Len(splits), st0)

\* _merge_splits(splits, separator)
merge_splits(splits, separator) ==
    LET end == MergeLoop(splits, separator, [docs |-> <<>>, current_doc |-> <<>>, total |-> 0])
        last == join_docs(end.current_doc, separator)
    IN IF last # <<>> THEN Append(end.docs, last) ELSE end.docs

\* the first separator of the list that is "" or occurs in the text (the last
\* one when none does)
RECURSIVE PickSeparator(_, _, _)
PickSeparator(text, separators, i) ==
    IF i > Len(separators) THEN [separator |-> separators[Len(separators)], rest |-> <<>>]
    ELSE IF separators[i] = <<>> THEN [separator |-> <<>>, rest |-> <<>>]
    ELSE IF Matches(text, separators[i], 1) # {}
         THEN [separator |-> separators[i], rest |-> SubSeq(separators, i + 1, Len(separators))]
    ELSE PickSeparator(text, separators, i + 1)

\* RecursiveCharacterTextSplitter._split_text(text, separators); the merge
\* separator is "" because keep_separator is True.  Step is one iteration of
\* the for loop over the pieces; st holds the loop's variables final_chunks and
\* _good_splits; Loop(lo, hi, st) is st after the iterations over
\* splits[lo..hi], taken by halves.
RECURSIVE recursive_split(_, _)
recursive_split(text, separators) ==
    LET pick == PickSeparator(text, separators, 1)
        splits == split_text_with_regex(text, pick.separator)
        Step(st, s) ==
            IF Len(s) < chunk_size
            THEN [final_chunks |-> st.final_chunks, good_splits |-> Append(st.good_splits, s)]
            ELSE LET flushed == IF st.good_splits # <<>>
                                THEN st.final_chunks \o merge_splits(st.good_splits, <<>>)
                                ELSE st.final_chunks
                 IN [final_chunks |-> IF pick.rest = <<>> THEN Append(flushed, s)
                                      ELSE flushed \o recursive_split(s, pick.rest),
                     good_splits |-> <<>>]
        RECURSIVE Loop(_, _, _)
        Loop(lo, hi, st) ==
            IF lo > hi \/ Len(st.good_splits) < 0 THEN st
            ELSE IF lo = hi THEN Step(st, splits[lo])
            ELSE Loop((lo + hi) \div 2 + 1, hi, Loop(lo, (lo + hi) \div 2, st))
        end == Loop(1, Len(splits), [final_chunks |-> <<>>, good_splits |-> <<>>])
    IN IF end.good_splits # <<>>
       THEN end.final_chunks \o merge_splits(end.good_splits, <<>>)
       ELSE end.final_chunks

\* text_splitter.split_text(text)
split_text(text) == recursive_split(text, Separators)

\* ------------------------------------------------------------ documents
\* An uploaded PDF, as pypdf sees it: whether PdfReader can read it, the
\* length of reader.pages, and what page.extract_text() returns for the
\* leading pages (every later page extracts to "").

File(readable, num_pages, pages, bytes) ==
    [readable |-> readable, num_pages |-> num_pages, pages |-> pages, bytes |-> bytes]

\* a one-page note
DocNote == File(TRUE, 1, << <<"R", "A", "G">> >>, 2048)

\* a scanned PDF: no page has text, one extracts to blanks
DocBlank == File(TRUE, 2, << <<>>, <<" ", " ">> >>, 4096)

\* a report at the page limit, its text longer than a preview
DocReport == File(TRUE, MAX_PAGES_PER_DOCUMENT,
                  << Rep("a", 120) \o <<" ">> \o Rep("b", 120), <<>>, Rep("c", 9) >>, 10000)

\* a manual of five pages, each too long to share a chunk with the next
DocManual == File(TRUE, 5, << Rep("m", 501), Rep("n", 501), Rep("o", 501),
                             Rep("p", 501), Rep("q", 501) >>, 300000)

\* one page over the limit
DocHuge == File(TRUE, MAX_PAGES_PER_DOCUMENT + 1, << <<"R", "A", "G">> >>, 20000)

\* not a PDF pypdf can read
DocBroken == File(FALSE, 0, <<>>, 100)

\* one page of 1000 characters without a blank: the extracted text, with the
\* newline the loop appends, is one character over chunk_size
DocSolid == File(TRUE, 1, << Rep("a", 1000) >>, 1100)

\* one page of 2499 characters without a blank: 2500 characters extracted
DocStream ==
    File(TRUE, 1, << Rep("a", 800) \o Rep("b", 800) \o Rep("c", 899) >>, 2600)

\* three pages without a blank: 833 + 833 + 831 characters and a newline
\* after each, 2500 characters extracted
DocThesis ==
    File(TRUE, 3, << Rep("d", 833), Rep("e", 833), Rep("f", 831) >>, 2700)

\* n words of len characters c, a blank after each
Words(c, n, len) == [i \in 1..(n * (len + 1)) |-> IF i % (len + 1) = 0 THEN " " ELSE c]

\* one page of four words of 600 characters and one of 95: 2500 characters
\* extracted
DocWords == File(TRUE, 1, << Words("w", 4, 600) \o Rep("x", 95) >>, 2800)

\* one page of twenty-five words of 99 characters, the first after two
\* blanks: 2502 characters extracted
DocEssay == File(TRUE, 1, << <<" ", " ">> \o Words("y", 24, 99) \o Rep("z", 99) >>, 2900)

Bodies == {DocNote, DocBlank, DocReport, DocManual, DocHuge, DocBroken,
           DocSolid, DocStream, DocThesis, DocWords, DocEssay}

\* file.filename, as os.path.splitext(...) splits it
Name(stem, ext) == [stem |-> stem, ext |-> ext]

NoName == Name("", "")

PdfNames == {Name("a", ".pdf"), Name("b", ".PDF")}

FileNames == PdfNames \cup {Name("notes", ".txt"), NoName}

\* str.lower() on the extensions in use
Lower(ext) == IF ext = ".PDF" THEN ".pdf" ELSE IF ext = ".TXT" THEN ".txt" ELSE ext

\* no file at a path of the upload directory
NoFile == [absent |-> TRUE]

\* ---------------------------------------------------------------- state

VARIABLES
    files,      \* UPLOAD_DIR: file_location -> the bytes stored there, or NoFile
    meta,       \* metadata_collection: the records, in insertion order
    others,     \* records of metadata_collection for filenames outside PdfNames
    index,      \* vectorstore: the entries added by uploads, in insertion order
    up,         \* the upload requests in flight, one per worker
    started,    \* upload requests accepted so far
    qry,        \* the query request in flight
    asked       \* query requests accepted so far

vars == <<files, meta, others, index, up, started, qry, asked>>

\* the workers that serve upload requests
Workers == {1, 2}

NoExc == [kind |-> "none", status_code |-> 0, detail |-> "", cause |-> ""]

\* HTTPException(status_code, detail); cause names the raise site
HTTPException(status_code, detail, cause) ==
    [kind |-> "HTTPException", status_code |-> status_code, detail |-> detail, cause |-> cause]

\* any other exception class
Raised(kind, cause) == [kind |-> kind, status_code |-> 0, detail |-> "", cause |-> cause]

IdleUpload ==
    [pc |-> "idle", filename |-> NoName, body |-> NoFile, original_size_kb |-> 0,
     chunks |-> <<>>, num_chunks |-> 0, exc |-> NoExc,
     status_code |-> 0, detail |-> "", metadata_id |-> 0,
     \* history of the request, for the properties
     wrote |-> FALSE, read |-> NoFile, pages_counted |-> FALSE, pages_extracted |-> 0,
     split |-> FALSE, upserted |-> 0, insert_tried |-> FALSE, inserted |-> FALSE,
     seq |-> 0, solo |-> TRUE, pre_meta |-> <<>>, pre_files |-> <<>>]

\* no response body (the request failed)
NoBody == [absent |-> TRUE]

NoQuery ==
    [pc |-> "idle", query |-> <<>>, retrieved |-> <<>>, context_text |-> <<>>,
     source_documents_info |-> <<>>, prompt |-> <<>>,
     status_code |-> 0, detail |-> "", body |-> NoBody,
     \* history of the request, for the properties
     searched |-> FALSE, seen |-> 0, generate_calls |-> 0, generate_failed |-> FALSE,
     sent |-> <<>>]

\* the number of records before the first request: none, one below the
\* limit, the limit
InitOthers == {0, MAX_DOCUMENTS_LIMIT - 1, MAX_DOCUMENTS_LIMIT}

Init ==
    /\ files = [f \in PdfNames |-> NoFile]
    /\ meta = <<>>
    /\ others \in InitOthers
    /\ index = <<>>
    /\ up = [w \in Workers |-> IdleUpload]
    /\ started = 0
    /\ qry = NoQuery
    /\ asked = 0

\* ------------------------------------------------ process_document_and_embed

\* page.extract_text() of page i
PageText(file, i) == IF i <= Len(file.pages) THEN file.pages[i] ELSE <<>>

\* the loop over pdf_reader.pages: text += page_text + "\n" for every page whose
\* page_text is not empty (the pages after file.pages extract to "" and add
\* nothing)
RECURSIVE ExtractFrom(_, _)
ExtractFrom(file, i) ==
    IF i > Len(file.pages) THEN <<>>
    ELSE (IF PageText(file, i) # <<>> THEN PageText(file, i) \o <<"\n">> ELSE <<>>)
         \o ExtractFrom(file, i + 1)

ExtractText(file) == ExtractFrom(file, 1)

\* len(pdf_reader.pages) > MAX_PAGES_PER_DOCUMENT
PageLimitExceeded(num_pages) == num_pages > MAX_PAGES_PER_DOCUMENT

\* except Exception as e: raise HTTPException(status_code=500, ...); it catches
\* whatever the try block raised, an HTTPException included
ReadFailure(e) == HTTPException(500, "Error reading PDF", e.cause)

\* ReadPdf with the page count checked after the extraction loop
ReadPdfCheckLate(file) ==
    IF file = NoFile
    THEN [exc |-> ReadFailure(Raised("FileNotFoundError", "file_missing")), text |-> <<>>,
          pages_counted |-> FALSE, pages_extracted |-> 0]
    ELSE IF ~file.readable
    THEN [exc |-> ReadFailure(Raised("PdfReadError", "extraction")), text |-> <<>>,
          pages_counted |-> FALSE, pages_extracted |-> 0]
    ELSE IF PageLimitExceeded(file.num_pages)
    THEN [exc |-> ReadFailure(HTTPException(400, "exceeds the maximum limit of pages",
                                            "page_limit")),
          text |-> <<>>, pages_counted |-> TRUE, pages_extracted |-> file.num_pages]
    ELSE [exc |-> NoExc, text |-> ExtractText(file),
          pages_counted |-> TRUE, pages_extracted |-> file.num_pages]

\* the try block: open the file, build the reader, check the page count, then
\* extract every page
ReadPdf(file) ==
    IF file = NoFile
    THEN [exc |-> ReadFailure(Raised("FileNotFoundError", "file_missing")), text |-> <<>>,
          pages_counted |-> FALSE, pages_extracted |-> 0]
    ELSE IF ~file.readable
    THEN [exc |-> ReadFailure(Raised("PdfReadError", "extraction")), text |-> <<>>,
          pages_counted |-> FALSE, pages_extracted |-> 0]
    ELSE IF PageLimitExceeded(file.num_pages)
    THEN [exc |-> ReadFailure(HTTPException(400, "exceeds the maximum limit of pages",
                                            "page_limit")),
          text |-> <<>>, pages_counted |-> TRUE, pages_extracted |-> 0]
    ELSE [exc |-> NoExc, text |-> ExtractText(file),
          pages_counted |-> TRUE, pages_extracted |-> file.num_pages]

\* NoReadableText without the strip()
NoReadableTextUnstripped(text) == text = <<>>

\* not text.strip()
NoReadableText(text) == strip(text) = <<>>

\* process_document_and_embed up to the call of vectorstore.add_texts: the
\* exception it raises, or the chunks and their metadata
Process(filename, file) ==
    LET r == ReadPdf(file)
        none == [exc |-> NoExc, chunks |-> <<>>, split |-> FALSE,
                 pages_counted |-> FALSE, pages_extracted |-> 0]
    IN IF Lower(filename.ext) # ".pdf"
       THEN [none EXCEPT !.exc = HTTPException(400, "Unsupported file type", "unsupported_type")]
       ELSE IF r.exc # NoExc
       THEN [none EXCEPT !.exc = r.exc, !.pages_counted = r.pages_counted,
                         !.pages_extracted = r.pages_extracted]
       ELSE IF NoReadableText(r.text)
       THEN [none EXCEPT !.exc = HTTPException(400, "No readable text extracted", "empty_text"),
                         !.pages_counted = TRUE, !.pages_extracted = r.pages_extracted]
       ELSE [exc |-> NoExc, chunks |-> split_text(r.text), split |-> TRUE,
             pages_counted |-> TRUE, pages_extracted |-> r.pages_extracted]

\* Entries with chunk_index i for i + 1
EntriesZeroBased(filename, chunks) ==
    [i \in 1..Len(chunks) |->
        [page_content |-> chunks[i],
         metadata |-> [source |-> filename, chunk_index |-> i - 1]]]

\* metadatas.append({"source": filename, "chunk_index": i + 1}), paired with
\* the chunk
Entries(filename, chunks) ==
    [i \in 1..Len(chunks) |->
        [page_content |-> chunks[i],
         metadata |-> [source |-> filename, chunk_index |-> i]]]

\* ----------------------------------------------------------- upload_document

\* metadata_collection.count_documents({})
count_documents == Len(meta) + others

\* DocLimitReached with > for >=
DocLimitExceeded(doc_count) == doc_count > MAX_DOCUMENTS_LIMIT

\* doc_count >= MAX_DOCUMENTS_LIMIT
DocLimitReached(doc_count) == doc_count >= MAX_DOCUMENTS_LIMIT

\* the checks before the try block: the exception raised, or NoExc
RequestCheck(filename, doc_count) ==
    IF filename = NoName
    THEN HTTPException(400, "No file name provided", "no_filename")
    ELSE IF Lower(filename.ext) # ".pdf"
    THEN HTTPException(400, "Unsupported file type", "unsupported_type")
    ELSE IF DocLimitReached(doc_count)
    THEN HTTPException(400, "Maximum number of documents reached", "doc_limit")
    ELSE NoExc

\* the unique index on "filename"
HasRecord(records, filename) == \E i \in 1..Len(records) : records[i].filename = filename

\* insert_one on a collection without the unique index
insert_one_no_index(records, record) == [exc |-> NoExc, records |-> Append(records, record)]

\* metadata_collection.insert_one(record) on a store that answers: the
\* collection afterwards, or DuplicateKeyError
insert_one(records, record) ==
    IF HasRecord(records, record.filename)
    THEN [exc |-> Raised("DuplicateKeyError", "duplicate"), records |-> records]
    ELSE [exc |-> NoExc, records |-> Append(records, record)]

\* an except clause that leaves the file in place
RemoveFileSkipped(fs, filename) == fs

\* if os.path.exists(file_location): os.remove(file_location)
RemoveFile(fs, filename) == [fs EXCEPT ![filename] = NoFile]

\* ExceptResponse with the first clause catching the base class PyMongoError
ExceptResponseBaseClassFirst(e) ==
    IF e.kind \in {"DuplicateKeyError", "PyMongoError"}
    THEN HTTPException(409, "already exists", e.cause)
    ELSE IF e.kind = "HTTPException" THEN e
    ELSE HTTPException(500, "An unexpected error occurred", e.cause)

\* the two except clauses of upload_document: the HTTPException that leaves
\* the handler
ExceptResponse(e) ==
    IF e.kind = "DuplicateKeyError" THEN HTTPException(409, "already exists", e.cause)
    ELSE IF e.kind = "PyMongoError" THEN HTTPException(500, "Database error", e.cause)
    ELSE IF e.kind = "HTTPException" THEN e
    ELSE HTTPException(500, "An unexpected error occurred", e.cause)

\* lines 42-53: a worker that is free (it has served no request yet, or has
\* returned from its last one) takes a request; filename, extension and
\* document count are checked
UploadRequest(w, filename, body) ==
    /\ up[w].pc \in {"idle", "done"}
    /\ started < MaxUploads
    /\ started' = started + 1
    /\ LET e == RequestCheck(filename, count_documents)
           u == [IdleUpload EXCEPT !.filename = filename, !.body = body,
                                   !.seq = started + 1, !.pre_meta = meta,
                                   !.pre_files = files,
                                   !.solo = \A v \in Workers \ {w} :
                                                up[v].pc \in {"idle", "done"}]
       IN up' = [up EXCEPT ![w] =
                    IF e = NoExc THEN [u EXCEPT !.pc = "write"]
                    ELSE [u EXCEPT !.pc = "done", !.exc = e,
                                   !.status_code = e.status_code, !.detail = e.detail]]
    /\ UNCHANGED <<files, meta, others, index, qry, asked>>

\* lines 55-58: the body is written to file_location (mode "wb") and its size
\* is read back
UploadWrite(w) ==
    /\ up[w].pc = "write"
    /\ files' = [files EXCEPT ![up[w].filename] = up[w].body]
    /\ up' = [up EXCEPT ![w].pc = "read", ![w].wrote = TRUE,
                        ![w].original_size_kb = up[w].body.bytes \div BYTES_PER_KB]
    /\ UNCHANGED <<meta, others, index, started, qry, asked>>

\* line 60, document_processor lines 28-59: the file is read and chunked
UploadRead(w) ==
    /\ up[w].pc = "read"
    /\ \E r \in {Process(up[w].filename, files[up[w].filename])} :
       up' = [up EXCEPT ![w].pc = IF r.exc = NoExc THEN "upsert" ELSE "except",
                        ![w].exc = r.exc,
                        ![w].chunks = r.chunks,
                        ![w].read = files[up[w].filename],
                        ![w].split = r.split,
                        ![w].pages_counted = r.pages_counted,
                        ![w].pages_extracted = r.pages_extracted]
    /\ UNCHANGED <<files, meta, others, index, started, qry, asked>>

\* document_processor lines 62-65: vectorstore.add_texts stores the chunks, or
\* fails and stores none
UploadUpsert(w) ==
    /\ up[w].pc = "upsert"
    /\ \/ /\ index' = index \o Entries(up[w].filename, up[w].chunks)
          /\ up' = [up EXCEPT ![w].pc = "insert",
                              ![w].num_chunks = Len(up[w].chunks),
                              ![w].upserted = Len(up[w].chunks)]
       \/ /\ up' = [up EXCEPT ![w].pc = "except", ![w].exc = Raised("Exception", "index")]
          /\ UNCHANGED index
    /\ UNCHANGED <<files, meta, others, started, qry, asked>>

\* new_doc_metadata with the size where the chunk count belongs
NewDocMetadataSizeForCount(u) ==
    [filename |-> u.filename, original_size_kb |-> u.original_size_kb,
     num_chunks |-> u.original_size_kb, status |-> "processed", file_path |-> u.filename]

\* new_doc_metadata
NewDocMetadata(u) ==
    [filename |-> u.filename, original_size_kb |-> u.original_size_kb,
     num_chunks |-> u.num_chunks, status |-> "processed", file_path |-> u.filename]

\* lines 63-78: the record is inserted and the handler returns, or insert_one
\* raises (the store fails, or the filename is a duplicate)
UploadInsert(w) ==
    /\ up[w].pc = "insert"
    /\ \/ LET r == insert_one(meta, NewDocMetadata(up[w])) IN
          /\ meta' = r.records
          /\ up' = [up EXCEPT ![w] =
                       IF r.exc = NoExc
                       THEN [up[w] EXCEPT !.pc = "done", !.status_code = 200,
                                          !.detail = "uploaded and processed successfully",
                                          !.metadata_id = Len(r.records),
                                          !.insert_tried = TRUE, !.inserted = TRUE]
                       ELSE [up[w] EXCEPT !.pc = "except", !.exc = r.exc,
                                          !.insert_tried = TRUE]]
       \/ /\ up' = [up EXCEPT ![w].pc = "except", ![w].exc = Raised("PyMongoError", "database")]
          /\ UNCHANGED meta
    /\ UNCHANGED <<files, others, index, started, qry, asked>>

\* lines 79-91: the file at file_location is removed and the error leaves the
\* handler
UploadExcept(w) ==
    /\ up[w].pc = "except"
    /\ files' = RemoveFile(files, up[w].filename)
    /\ LET e == ExceptResponse(up[w].exc) IN
       up' = [up EXCEPT ![w].pc = "done", ![w].status_code = e.status_code,
                        ![w].detail = e.detail]
    /\ UNCHANGED <<meta, others, index, started, qry, asked>>

\* the requests clients send to the upload endpoint: the report and the bodies
\* the pipeline refuses under the PDF names, and the names the handler turns
\* away
Requests ==
    [filename : PdfNames, body : {DocReport, DocBlank, DocHuge, DocBroken}]
        \cup [filename : FileNames \ PdfNames, body : {DocReport}]

UploadNext(workers, requests) ==
    \E w \in workers :
        \/ \E r \in requests : UploadRequest(w, r.filename, r.body)
        \/ UploadWrite(w)
        \/ UploadRead(w)
        \/ UploadUpsert(w)
        \/ UploadInsert(w)
        \/ UploadExcept(w)

Next == UploadNext(Workers, Requests)

Spec == Init /\ [][Next]_vars

\* ---------------------------------------------------------------- query_system

\* the fixed response of line 119
NoRelevantDocuments ==
    <<"No relevant documents found for your query. Please upload documents first or try a different query.">>

\* the template of lines 133-142 around the context and around the question
PromptHead ==
    <<"You are a helpful AI assistant. Use the following pieces of context to answer the question at the end. \n    If you don't know the answer, just say that you don't know, don't try to make up an answer.\n\n    Context:\n    ">>

PromptMiddle == <<"\n\n    Question: ">>

PromptTail == <<"\n\n    Answer:\n    ">>

Ellipsis == <<".", ".", ".">>

\* how the embedding ranks the stored entries against a query: the model lets
\* the nearest be the earliest or the latest inserted
Rankings == {"earliest_nearest", "latest_nearest"}

\* vectorstore.similarity_search_with_score(query, k): the k nearest entries
\* (all of them when there are fewer), nearest first, each with its distance
similarity_search_with_score(entries, ranking, k) ==
    [i \in 1..Min(k, Len(entries)) |->
        [doc |-> IF ranking = "earliest_nearest" THEN entries[i]
                 ELSE entries[Len(entries) + 1 - i],
         score |-> i]]

\* the handler without the check for an empty result
NoResultsUnchecked(hits) == FALSE

\* not retrieved_docs_with_scores
NoResults(hits) == hits = <<>>

\* ContentPreview without the slice
ContentPreviewUncut(page_content) == page_content \o Ellipsis

\* doc.page_content[:200] + "..."
ContentPreview(page_content) == Take(page_content, PREVIEW_LEN) \o Ellipsis

\* the element appended to source_documents_info
SourceInfo(hit) ==
    [content_preview |-> ContentPreview(hit.doc.page_content),
     metadata |-> hit.doc.metadata,
     relevance_score |-> hit.score]

\* the loop of lines 124-130
SourceDocumentsInfo(hits) == [i \in 1..Len(hits) |-> SourceInfo(hits[i])]

RECURSIVE ContextText(_)
ContextText(hits) ==
    IF hits = <<>> THEN <<>>
    ELSE Head(hits).doc.page_content \o <<"\n", "\n">> \o ContextText(Tail(hits))

\* a template without the {context_text} field
PromptWithoutContext(context_text, query) ==
    PromptHead \o PromptMiddle \o query \o PromptTail

\* the f-string of lines 133-142
Prompt(context_text, query) ==
    PromptHead \o context_text \o PromptMiddle \o query \o PromptTail

\* an except clause that answers with what it has instead of raising
GenerationFailureSwallowed(q) ==
    [q EXCEPT !.pc = "done", !.status_code = 200,
              !.body = [response |-> <<>>, source_documents |-> q.source_documents_info]]

\* what the except clause of lines 147-149 sends
GenerationFailure(q) ==
    [q EXCEPT !.pc = "done", !.status_code = 500,
              !.detail = "Error generating LLM response", !.body = NoBody]

\* the questions clients ask
Queries == { <<"W", "h", "a", "t", " ", "i", "s", " ", "X", "?">> }

\* what the model answers
Answers == { <<"X", " ", "i", "s", " ", "Y">> }

\* lines 116-142: a request arrives and the index is searched; the search
\* fails, or finds nothing and the handler returns, or the prompt is built
QuerySearch(query) ==
    /\ qry.pc \in {"idle", "done"}
    /\ asked < MaxQueries
    /\ asked' = asked + 1
    /\ LET q == [NoQuery EXCEPT !.query = query, !.seen = Len(index)] IN
       \/ \E ranking \in Rankings :
            LET hits == similarity_search_with_score(index, ranking, SEARCH_K)
                found == [q EXCEPT !.searched = TRUE, !.retrieved = hits]
            IN qry' = IF NoResults(hits)
                      THEN [found EXCEPT !.pc = "done", !.status_code = 200,
                                         !.body = [response |-> NoRelevantDocuments,
                                                   source_documents |-> <<>>]]
                      ELSE [found EXCEPT !.pc = "generate",
                                         !.context_text = ContextText(hits),
                                         !.source_documents_info = SourceDocumentsInfo(hits),
                                         !.prompt = Prompt(ContextText(hits), query)]
       \/ qry' = [q EXCEPT !.pc = "done", !.status_code = 500,
                           !.detail = "Internal Server Error"]
    /\ UNCHANGED <<files, meta, others, index, up, started>>

\* a handler that stores the question it answered in the vectorstore
QueryGenerateRemembered ==
    /\ qry.pc = "generate"
    /\ \E text \in Answers :
          qry' = [qry EXCEPT !.pc = "done", !.status_code = 200,
                             !.generate_calls = @ + 1,
                             !.sent = qry.prompt,
                             !.body = [response |-> text,
                                       source_documents |-> qry.source_documents_info]]
    /\ index' = index \o Entries(NoName, <<qry.query>>)
    /\ UNCHANGED <<files, meta, others, up, started, asked>>

\* lines 144-154: gemini_model.generate_content(prompt) answers and the
\* handler returns the answer with the sources, or it raises
QueryGenerate ==
    /\ qry.pc = "generate"
    /\ \/ \E text \in Answers :
            qry' = [qry EXCEPT !.pc = "done", !.status_code = 200,
                               !.generate_calls = @ + 1,
                               !.sent = qry.prompt,
                               !.body = [response |-> text,
                                         source_documents |-> qry.source_documents_info]]
       \/ qry' = GenerationFailure([qry EXCEPT !.generate_calls = @ + 1,
                                               !.sent = qry.prompt,
                                               !.generate_failed = TRUE])
    /\ UNCHANGED <<files, meta, others, index, up, started, asked>>

QueryNext ==
    \/ \E query \in Queries : QuerySearch(query)
    \/ QueryGenerate

\* the uploads that fill the index for the queries: one worker, the manual
\* under one name and the note under the other
QueryRequests ==
    {[filename |-> Name("a", ".pdf"), body |-> DocManual],
     [filename |-> Name("b", ".PDF"), body |-> DocNote]}

QueryInit == Init /\ others = 0

QuerySpecNext == UploadNext({1}, QueryRequests) \/ QueryNext

QuerySpec == QueryInit /\ [][QuerySpecNext]_vars

\* the uploads of documents longer than a chunk: one worker, three documents
\* under each name
IngestRequests ==
    [filename : {Name("a", ".pdf")}, body : {DocSolid, DocStream, DocWords}]
        \cup [filename : {Name("b", ".PDF")}, body : {DocThesis, DocEssay, DocManual}]

IngestNext == UploadNext({1}, IngestRequests)

IngestSpec == QueryInit /\ [][IngestNext]_vars

\* concurrent uploads of documents of one chunk and of several: two workers,
\* the note under both names and the manual under one of them
RaceRequests ==
    QueryRequests \cup {[filename |-> Name("a", ".pdf"), body |-> DocNote]}

RaceNext == UploadNext(Workers, RaceRequests)

RaceSpec == QueryInit /\ [][RaceNext]_vars

\* ------------------------------------------------------------ properties

\* worker w takes a request in this step
Takes(w) == up'[w].seq # up[w].seq

\* worker w returns from its request in this step
Returns(w) == up'[w].pc = "done" /\ (up[w].pc # "done" \/ Takes(w))

\* the request worker w has returned from ran alone: no other request was in
\* flight when it arrived and none has arrived since
Sequential(u) == u.solo /\ started = u.seq

\* a body that process_document_and_embed accepts
Processable(file) ==
    /\ file # NoFile
    /\ file.readable
    /\ file.num_pages <= 1000
    /\ \E i \in 1..Len(file.pages) : \E j \in 1..Len(file.pages[i]) :
          file.pages[i][j] \notin {" ", "\n", "\t"}

\* C1 (as claimed): a second upload of a filename whose first upload has
\* succeeded returns 409 and leaves the metadata store and the file store as
\* they were before it.  Stated for a second upload that runs alone, with a
\* body the pipeline accepts and the document limit not reached.
C1_Original ==
    \A w \in Workers :
        LET u == up[w] IN
        ( /\ u.pc = "done"
          /\ Sequential(u)
          /\ \E i \in 1..Len(u.pre_meta) : u.pre_meta[i].filename = u.filename
          /\ u.pre_files[u.filename] # NoFile
          /\ Len(u.pre_meta) + others < 20
          /\ Processable(u.body) )
        => ( /\ u.status_code = 409
             /\ meta = u.pre_meta
             /\ files = u.pre_files )

\* C2: an upload that fails after it wrote its file returns with no file at
\* its file_location and without having inserted a record.
C2_FailedUploadCleansUp ==
    [][\A w \in Workers :
          (Returns(w) /\ up'[w].status_code # 200 /\ up'[w].wrote)
          => ( /\ files'[up'[w].filename] = NoFile
               /\ ~up'[w].inserted
               /\ meta' = meta )]_vars

C2_Witness ==
    \E w \in Workers :
        /\ up[w].pc = "done"
        /\ up[w].wrote
        /\ up[w].exc.cause = "database"
        /\ up[w].status_code = 500
        /\ files[up[w].filename] = NoFile

\* C3: a request for a PDF name that arrives when the store holds 20 records
\* is rejected in that step: nothing is written to the file store, the vector
\* index or the metadata store.
C3_LimitBeforeFileIO ==
    [][\A w \in Workers :
          (Takes(w) /\ Len(meta) + others >= 20 /\ up'[w].filename \in PdfNames)
          => ( /\ up'[w].pc = "done"
               /\ up'[w].status_code = 400
               /\ up'[w].detail = "Maximum number of documents reached"
               /\ ~up'[w].wrote
               /\ files' = files /\ index' = index /\ meta' = meta )]_vars

C3_Witness ==
    \E w \in Workers :
        /\ up[w].pc = "done"
        /\ up[w].filename \in PdfNames
        /\ up[w].exc.cause = "doc_limit"
        /\ Len(up[w].pre_meta) + others = 20

\* the status the interface documents for each cause of failure
DocumentedStatus(cause) ==
    IF cause \in {"unsupported_type", "no_filename", "page_limit", "empty_text"} THEN 400
    ELSE IF cause = "duplicate" THEN 409
    ELSE 500

\* C4 (as claimed): a failed upload is answered with the status of its cause;
\* a document over the page limit is answered with 400.
C4_Original ==
    \A w \in Workers :
        ( /\ up[w].pc = "done"
          /\ up[w].exc.cause \in {"unsupported_type", "no_filename", "page_limit",
                                  "empty_text", "duplicate", "extraction", "database"} )
        => up[w].status_code = DocumentedStatus(up[w].exc.cause)

\* C5: an upload that reads a PDF of more than 1000 pages stops after the page
\* count: no page is extracted, nothing is chunked, upserted or inserted, and
\* the request fails.
C5_PageLimitBeforeExtraction ==
    \A w \in Workers :
        LET u == up[w] IN
        (u.read # NoFile /\ u.read.readable /\ u.read.num_pages > 1000)
        => ( /\ u.pc \in {"except", "done"}
             /\ u.pages_counted
             /\ u.pages_extracted = 0
             /\ ~u.split
             /\ u.upserted = 0
             /\ ~u.insert_tried /\ ~u.inserted
             /\ u.pc = "done" => u.status_code \in {400, 500} )

C5_Witness ==
    \E w \in Workers :
        /\ up[w].pc = "done"
        /\ up[w].read = DocHuge
        /\ up[w].pages_counted

\* every page of the file extracts to "" or to whitespace
AllBlank(file) ==
    \A i \in 1..Len(file.pages) : \A j \in 1..Len(file.pages[i]) :
        file.pages[i][j] \in {" ", "\n", "\t"}

\* C6: an upload that reads a PDF (readable, within the page limit) whose
\* pages all extract to empty or whitespace-only text is answered 400 "No
\* readable text extracted"; it chunks and upserts nothing, inserts no record,
\* and its file is removed when it returns.
C6_EmptyTextRejected ==
    [][\A w \in Workers :
          LET u == up'[w] IN
          (u.read # NoFile /\ u.read.readable /\ u.read.num_pages <= 1000 /\ AllBlank(u.read))
          => ( /\ u.pc \in {"except", "done"}
               /\ ~u.split
               /\ u.upserted = 0
               /\ ~u.insert_tried /\ ~u.inserted
               /\ u.pc = "done" => ( /\ u.status_code = 400
                                     /\ u.detail = "No readable text extracted" )
               /\ Returns(w) => files'[u.filename] = NoFile )]_vars

C6_Witness ==
    \E w \in Workers :
        /\ up[w].pc = "done"
        /\ up[w].read = DocBlank
        /\ up[w].status_code = 400
        /\ files[up[w].filename] = NoFile

\* C7: the metadata store never holds two records with one filename, and an
\* upload whose insert reaches the store when a record of its filename is
\* there inserts nothing and is answered 409.
C7_SecondWriterConflicts ==
    /\ \A i, j \in 1..Len(meta) : meta[i].filename = meta[j].filename => i = j
    /\ \A w \in Workers :
          LET u == up[w] IN
          (u.insert_tried /\ ~u.inserted)
          => ( /\ \E i \in 1..Len(meta) : meta[i].filename = u.filename
               /\ u.pc = "except" => u.exc.kind = "DuplicateKeyError"
               /\ u.pc = "done" => u.status_code = 409 )
    /\ \A w \in Workers :
          up[w].inserted
          => ( /\ up[w].metadata_id \in 1..Len(meta)
               /\ meta[up[w].metadata_id].filename = up[w].filename
               /\ up[w].status_code = 200 )

\* two uploads of one filename in flight together, neither seeing a record
\* when it arrived: one inserted, the other was answered 409
C7_Witness ==
    \E w, v \in Workers :
        /\ w # v
        /\ up[w].filename = up[v].filename
        /\ up[w].pc = "done" /\ up[v].pc = "done"
        /\ up[w].pre_meta = <<>> /\ up[v].pre_meta = <<>>
        /\ ~up[v].solo
        /\ up[w].inserted
        /\ up[v].insert_tried /\ up[v].status_code = 409

\* C8: a query whose search returns nothing (as every search of an empty index
\* does) returns the fixed response with no sources, and generate_content is
\* not called.
C8_NoMatchNoGeneration ==
    /\ (qry.searched /\ qry.seen = 0) => qry.retrieved = <<>>
    /\ (qry.searched /\ qry.retrieved = <<>>)
       => ( /\ qry.pc = "done"
            /\ qry.status_code = 200
            /\ qry.body # NoBody
            /\ qry.body.response = NoRelevantDocuments
            /\ qry.body.source_documents = <<>>
            /\ qry.generate_calls = 0 )

C8_Witness ==
    /\ qry.pc = "done"
    /\ qry.searched
    /\ qry.seen = 0
    /\ qry.retrieved = <<>>
    /\ qry.status_code = 200

\* C9: a query whose generation call fails after a non-empty retrieval ends
\* with the generation error, which no search failure produces; it returns
\* neither response text nor sources, and generate_content was called once.
C9_GenerationFailureSurfaced ==
    /\ qry.generate_failed
       => ( /\ qry.pc = "done"
            /\ qry.retrieved # <<>>
            /\ qry.status_code = 500
            /\ qry.detail = "Error generating LLM response"
            /\ qry.body = NoBody
            /\ qry.generate_calls = 1 )
    /\ (qry.pc = "done" /\ ~qry.searched)
       => ( /\ qry.status_code = 500
            /\ qry.detail # "Error generating LLM response"
            /\ qry.body = NoBody )

C9_Witness ==
    /\ qry.pc = "done"
    /\ qry.generate_failed
    /\ Len(qry.retrieved) = 4

\* C10: a successful query returns one source per retrieved chunk, in the
\* order retrieved (so at most 4): the first 200 characters of the chunk, then
\* "...", with the chunk's metadata and score.
C10_SourcesMatchRetrieved ==
    (qry.pc = "done" /\ qry.status_code = 200)
    => LET src == qry.body.source_documents IN
       /\ Len(src) = Len(qry.retrieved)
       /\ Len(src) <= 4
       /\ \A i \in 1..Len(src) :
            LET text == qry.retrieved[i].doc.page_content
                n == IF Len(text) < 200 THEN Len(text) ELSE 200
            IN /\ Len(src[i].content_preview) = n + 3
               /\ \A j \in 1..n : src[i].content_preview[j] = text[j]
               /\ \A j \in 1..3 : src[i].content_preview[n + j] = "."
               /\ src[i].metadata = qry.retrieved[i].doc.metadata
               /\ src[i].relevance_score = qry.retrieved[i].score

\* four sources returned from an index of more than four entries, a chunk
\* longer than a preview among them and a shorter one
C10_Witness ==
    /\ qry.pc = "done"
    /\ qry.status_code = 200
    /\ qry.seen > 4
    /\ Len(qry.body.source_documents) = 4
    /\ \E i \in 1..4 : Len(qry.retrieved[i].doc.page_content) > 200
    /\ \E i \in 1..4 : Len(qry.retrieved[i].doc.page_content) < 200

\* sub is text[i .. i + Len(sub) - 1]
StartsAt(text, sub, i) ==
    /\ i >= 1
    /\ i + Len(sub) - 1 <= Len(text)
    /\ \A k \in 1..Len(sub) : text[i + k - 1] = sub[k]

\* the length of the first n retrieved chunks, each with the blank line that
\* follows it
RECURSIVE BlockLen(_, _)
BlockLen(hits, n) ==
    IF n = 0 THEN 0 ELSE BlockLen(hits, n - 1) + Len(hits[n].doc.page_content) + 2

\* C11: the prompt generate_content was called with holds one block made of
\* the retrieved chunks in the order the search returned them, each followed
\* by a blank line, and after that block the query as asked.
C11_PromptHoldsContextAndQuery ==
    qry.generate_calls > 0
    => LET hits == qry.retrieved
           p == qry.sent
       IN /\ hits # <<>>
          /\ \E s \in 1..Len(p) :
                /\ \A i \in 1..Len(hits) :
                      /\ StartsAt(p, hits[i].doc.page_content, s + BlockLen(hits, i - 1))
                      /\ StartsAt(p, <<"\n", "\n">>, s + BlockLen(hits, i) - 2)
                /\ \E t \in (s + BlockLen(hits, Len(hits)))..Len(p) :
                      StartsAt(p, qry.query, t)

\* generation was called for four chunks that the search returned in an order
\* other than that of their chunk_index
C11_Witness ==
    /\ qry.generate_calls = 1
    /\ Len(qry.retrieved) = 4
    /\ qry.retrieved[1].doc.page_content # qry.retrieved[2].doc.page_content
    /\ qry.retrieved[1].doc.metadata.source = qry.retrieved[2].doc.metadata.source
    /\ qry.retrieved[1].doc.metadata.chunk_index > qry.retrieved[2].doc.metadata.chunk_index

IsSpace(c) == c \in {" ", "\n", "\t"}

Max(a, b) == IF a >= b THEN a ELSE b

\* the chunks cs[i..], each with an overlap region of at most 200 characters
\* removed from its start, continue text after its first pos characters and
\* end where it ends
RECURSIVE Rebuilds(_, _, _, _)
Rebuilds(text, cs, i, pos) ==
    IF i > Len(cs) THEN pos = Len(text)
    ELSE \E k \in 0..(IF i = 1 THEN 0 ELSE Min(200, Len(cs[i]))) :
            /\ k <= pos
            /\ StartsAt(text, cs[i], pos + 1 - k)
            /\ Rebuilds(text, cs, i + 1, pos - k + Len(cs[i]))

\* C12 (as claimed): a text of more than 1000 characters is cut into at least
\* 2 chunks of at most 1000 characters, and the chunks, the later ones without
\* their overlap region, concatenate to the text.
C12_Original ==
    \A w \in Workers :
        LET u == up[w] IN
        u.split
        => \A text \in {ExtractText(u.read)} :
           Len(text) > 1000
           => ( /\ Len(u.chunks) >= 2
                /\ \A i \in 1..Len(u.chunks) : Len(u.chunks[i]) <= 1000
                /\ Rebuilds(text, u.chunks, 1, 0) )

\* the chunks cs[i..] lie in text in order, none starting before prev, the
\* place of the one before, nor more than 200 characters before the end of
\* what the chunks before it cover (the first pos characters), and the
\* characters between and after them are blanks
RECURSIVE Covers(_, _, _, _, _)
Covers(text, cs, i, pos, prev) ==
    IF i > Len(cs) THEN \A j \in (pos + 1)..Len(text) : IsSpace(text[j])
    ELSE \E st \in Max(prev, pos - 199)..Len(text) :
            /\ \A j \in (pos + 1)..(st - 1) : IsSpace(text[j])
            /\ StartsAt(text, cs[i], st)
            /\ Covers(text, cs, i + 1, Max(pos, st + Len(cs[i]) - 1), st)

\* C12 (amended): a text of more than 1000 characters is cut into chunks of 1
\* to 1000 characters that neither start nor end with a blank, at least 2 of
\* them when the text without its leading and trailing blanks has more than
\* 1000 characters; the chunks are stretches of the text, in its order, a
\* later one reaching back at most 200 characters into what the earlier ones
\* cover, and every character outside the chunks is a blank.
C12_ChunksCoverText ==
    \A w \in Workers :
        LET u == up[w]
            cs == u.chunks
        IN u.split
           => \A text \in {ExtractText(u.read)} :
              Len(text) > 1000
              => ( /\ \A i \in 1..Len(cs) :
                      /\ Len(cs[i]) \in 1..1000
                      /\ ~IsSpace(cs[i][1])
                      /\ ~IsSpace(cs[i][Len(cs[i])])
                /\ Len(cs) >= 1
                /\ Len(strip(text)) > 1000 => Len(cs) >= 2
                /\ Covers(text, cs, 1, 0, 1) )

\* a text of 2500 characters cut into three chunks that overlap, its last
\* character a newline that no chunk holds
C12_Witness ==
    \E w \in Workers :
        LET u == up[w] IN
        /\ u.split
        /\ \E text \in {ExtractText(u.read)} :
           /\ Len(text) = 2500
           /\ Len(u.chunks) = 3
           /\ Len(u.chunks[1]) + Len(u.chunks[2]) + Len(u.chunks[3]) > Len(text)
           /\ IsSpace(text[Len(text)])

\* the entries of the index with source filename
EntriesOf(filename) == SelectSeq(index, LAMBDA e : e.metadata.source = filename)

\* C13 (as claimed): a committed upload whose extracted text has 2500
\* characters produced 4 chunks, and its record reports num_chunks = 4.
C13_Original ==
    \A w \in Workers :
        LET u == up[w] IN
        (u.inserted /\ Len(ExtractText(u.read)) = 2500)
        => ( /\ Len(u.chunks) = 4
             /\ meta[u.metadata_id].num_chunks = 4 )

\* C13 (amended): the record of a committed upload reports as num_chunks the
\* number of chunks its text was cut into and the upload upserted; for a text
\* of 2500 characters that number is 3 when the text has no blank but the
\* newline at its end, 3 for three pages of 833, 833 and 831 characters
\* without blanks, and 4 for four words of 600 characters and one of 95.
C13_NumChunksReported ==
    \A w \in Workers :
        LET u == up[w] IN
        u.inserted
        => \A text \in {ExtractText(u.read)} :
             /\ meta[u.metadata_id].filename = u.filename
             /\ meta[u.metadata_id].num_chunks = Len(u.chunks)
             /\ meta[u.metadata_id].num_chunks = u.upserted
             /\ Len(EntriesOf(u.filename)) >= u.upserted
             /\ ( /\ Len(text) = 2500
                  /\ \A j \in 1..(Len(text) - 1) : ~IsSpace(text[j]) )
                => meta[u.metadata_id].num_chunks = 3
             /\ u.read = DocThesis => meta[u.metadata_id].num_chunks = 3
             /\ u.read = DocWords => meta[u.metadata_id].num_chunks = 4

\* a committed upload of three pages, 2500 characters extracted, recorded with
\* three chunks
C13_Witness ==
    \E w \in Workers :
        LET u == up[w] IN
        /\ u.pc = "done"
        /\ u.inserted
        /\ u.read.num_pages = 3
        /\ Len(ExtractText(u.read)) = 2500
        /\ meta[u.metadata_id].num_chunks = 3
        /\ Len(EntriesOf(u.filename)) = 3

\* es holds, one after the other, entries numbered 1 .. n
HoldsRun(es, n) ==
    \E k \in 0..(Len(es) - n) : \A j \in 1..n : es[k + j].metadata.chunk_index = j

\* es holds, one after the other and numbered from 1, the chunks cs
HoldsChunks(es, cs) ==
    \E k \in 0..(Len(es) - Len(cs)) :
        \A j \in 1..Len(cs) :
            /\ es[k + j].metadata.chunk_index = j
            /\ es[k + j].page_content = cs[j]

\* C14: every record has status "processed" and a num_chunks n >= 1 such that
\* the index holds entries of the record's filename numbered 1 .. n in that
\* order; and the record an upload has committed counts the chunks the
\* chunker returned to that upload for the file it read, all of which the
\* index holds under the record's filename.
C14_RecordAfterChunks ==
    /\ \A i \in 1..Len(meta) :
          /\ meta[i].status = "processed"
          /\ meta[i].num_chunks >= 1
          /\ HoldsRun(EntriesOf(meta[i].filename), meta[i].num_chunks)
    /\ \A w \in Workers :
          LET u == up[w] IN
          u.inserted
          => ( /\ u.split
               /\ u.read # NoFile
               /\ meta[u.metadata_id].filename = u.filename
               /\ meta[u.metadata_id].num_chunks = Len(u.chunks)
               /\ HoldsChunks(EntriesOf(u.filename), u.chunks) )

\* a record of five chunks, committed while the index also holds the chunk of
\* another upload of that filename
C14_Witness ==
    \E i \in 1..Len(meta) :
        /\ meta[i].num_chunks = 5
        /\ Len(EntriesOf(meta[i].filename)) = 6
        /\ \E w \in Workers : up[w].inserted /\ up[w].metadata_id = i /\ ~up[w].solo

\* no upload is in flight
Quiet == \A w \in Workers : up[w].pc \in {"idle", "done"}

\* C15 (as claimed): when the uploads so far have returned, none of them
\* having run beside another, a file is stored under a filename exactly when
\* the metadata store holds a record of that filename, and the file at the
\* file_path of every record exists.
C15_Original ==
    (Quiet /\ \A w \in Workers : up[w].solo)
    => ( /\ \A f \in PdfNames : (files[f] # NoFile) <=> HasRecord(meta, f)
         /\ \A i \in 1..Len(meta) : files[meta[i].file_path] # NoFile )

\* C16: an upload whose insert_one failed with a store error after its chunks
\* were upserted is answered 500, its file is removed and the metadata store
\* is as it was when the request arrived, but the index holds its chunks; a
\* query that searches the index afterwards, the index holding no more than 4
\* entries, retrieves them.
C16_OrphanChunksStay ==
    \A w \in Workers :
        LET u == up[w] IN
        (u.pc = "done" /\ u.exc.cause = "database")
        => ( /\ u.status_code = 500
             /\ u.upserted = Len(u.chunks) /\ u.upserted >= 1
             /\ ~u.inserted
             /\ files[u.filename] = NoFile
             /\ meta = u.pre_meta
             /\ HoldsChunks(EntriesOf(u.filename), u.chunks)
             /\ (qry.searched /\ qry.seen = Len(index) /\ Len(index) <= 4)
                => \A j \in 1..Len(u.chunks) :
                      \E i \in 1..Len(qry.retrieved) :
                          /\ qry.retrieved[i].doc.page_content = u.chunks[j]
                          /\ qry.retrieved[i].doc.metadata.source = u.filename
                          /\ qry.retrieved[i].doc.metadata.chunk_index = j )

\* an upload failed at the metadata write, no record of its filename exists,
\* and a query has answered with its chunk as a source
C16_Witness ==
    /\ up[1].pc = "done"
    /\ up[1].exc.cause = "database"
    /\ ~HasRecord(meta, up[1].filename)
    /\ qry.pc = "done"
    /\ qry.status_code = 200
    /\ qry.seen = Len(index)
    /\ \E i \in 1..Len(qry.body.source_documents) :
          qry.body.source_documents[i].metadata.source = up[1].filename

\* C17 (as claimed): the metadata store never holds more than 20 records,
\* however concurrent uploads of distinct filenames interleave.
C17_Original == Len(meta) + others <= 20

\* C18 (as claimed): an upload that ran alone, met no store failure and found
\* a record of its filename when it arrived has added no entry to the index,
\* and the index holds no two entries of that filename with one chunk_index.
C18_Original ==
    \A w \in Workers :
        LET u == up[w] IN
        ( /\ u.pc = "done"
          /\ Sequential(u)
          /\ u.exc.cause \notin {"index", "database"}
          /\ HasRecord(u.pre_meta, u.filename) )
        => ( /\ u.upserted = 0
             /\ \A i, j \in 1..Len(index) :
                   ( /\ index[i].metadata.source = u.filename
                     /\ index[j].metadata = index[i].metadata )
                   => i = j )

\* C19: a step of the query handler, whatever it ends with, changes neither
\* the vector index nor the metadata store nor the file store, nor the
\* uploads in flight.
C19_QueryReadOnly ==
    [][(qry' # qry)
       => ( /\ index' = index
            /\ meta' = meta /\ others' = others
            /\ files' = files
            /\ up' = up /\ started' = started )]_vars

\* a query has called generate_content while an upload, its chunks in the
\* index, had not yet written its record
C19_Witness ==
    /\ qry.pc = "done"
    /\ qry.generate_calls = 1
    /\ qry.seen = Len(index)
    /\ up[1].pc = "insert"
    /\ up[1].upserted >= 1

====
